---- MODULE Spec2Model ----
(***************************************************************************)
(* Model of src/main.py: the stalled-download watchdog.  One sweep of the  *)
(* scheduler loop polls the queue of every configured backend, starts a    *)
(* timer in the SQLite table for every newly classified download, and      *)
(* removes (and optionally re-searches) a download whose timer exceeded    *)
(* STALLED_TIMEOUT.                                                        *)
(*                                                                         *)
(* Encoding of Python values:                                              *)
(*   - a field of a JSON object is Missing (no such key), Null or         *)
(*     Value(v);                                                           *)
(*   - a Python value that may be None is None or Some(v);                 *)
(*   - a string whose characters matter is a sequence of 1-character       *)
(*     strings;                                                            *)
(*   - a datetime is an integer number of seconds.                         *)
(***************************************************************************)
EXTENDS Integers, Sequences, FiniteSets, TLC

\* ------------------------------------------------------------------ bounds
\* The clock runs over 0..MaxTime.
MaxTime == 2
\* STALLED_TIMEOUT is 0 or MaxTimeout.
MaxTimeout == 1
\* A fetched queue holds at most MaxRecords records.
MaxRecords == 2
\* A paged backend holds at most MaxQueue records.
MaxQueue == 120
\* query_api_paginated is followed for at most MaxRequests requests.
MaxRequests == 3

None == <<>>

Some(v) == <<v>>

Missing == [json |-> "missing"]

Null == [json |-> "null"]

Value(v) == [json |-> "value", v |-> v]

\* ---------------------------------------------------------- configuration
VARIABLES
    STALLED_TIMEOUT,    \* seconds of grace, 0 = store not initialised
    STALLED_ACTION,     \* "REMOVE" or "BLOCKLIST_AND_SEARCH"
    COUNT_DOWNLOADING_METADATA_AS_STALLED,
    \* ------------------------------------------------------- the database
    table,              \* does the table stalled_downloads exist
    rows,               \* the rows of stalled_downloads
    \* ---------------------------------------------------------- the world
    now,                \* datetime.now(timezone.utc), in seconds
    \* -------------------------------------------------------- the process
    pc,                 \* position of the main loop
    cycle,              \* what the run of check_queue_and_act that just returned did
    \* ------------------------------------------------------------ history
    run,                \* per backend, mode and download: since when every poll
                        \* of that backend and mode has classified the download
    \* ------------------------------------------------- one function alone
    call                \* arguments, locals and result of a function run on
                        \* its own (classification, store, pagination)

vars == <<STALLED_TIMEOUT, STALLED_ACTION, COUNT_DOWNLOADING_METADATA_AS_STALLED,
          table, rows, now, pc, cycle, run, call>>

config == <<STALLED_TIMEOUT, STALLED_ACTION, COUNT_DOWNLOADING_METADATA_AS_STALLED>>

\* ------------------------------------------------------------------ text
\* the letters str.lower() changes
ToLower ==
    [A |-> "a", B |-> "b", C |-> "c", D |-> "d", E |-> "e", F |-> "f", G |-> "g",
     H |-> "h", I |-> "i", J |-> "j", K |-> "k", L |-> "l", M |-> "m", N |-> "n",
     O |-> "o", P |-> "p", Q |-> "q", R |-> "r", S |-> "s", T |-> "t", U |-> "u",
     V |-> "v", W |-> "w", X |-> "x", Y |-> "y", Z |-> "z"]

UpperCase == DOMAIN ToLower

\* str.lower() on one character
LowerChar(c) == IF c \in UpperCase THEN ToLower[c] ELSE c

\* str.lower()
Lower(s) == [i \in 1..Len(s) |-> LowerChar(s[i])]

\* the Python test `sub in s` on strings
Contains(sub, s) ==
    \E k \in 0..(Len(s) - Len(sub)) :
        \A i \in 1..Len(sub) : s[k + i] = sub[i]

Digits == <<"0", "1", "2", "3", "4", "5", "6", "7", "8", "9">>

\* str(n) for a natural number n
RECURSIVE Str(_)
Str(n) ==
    IF n < 10 THEN <<Digits[n + 1]>>
    ELSE Str(n \div 10) \o <<Digits[(n % 10) + 1]>>

\* service_name.startswith(prefix)
StartsWith(s, prefix) ==
    /\ Len(prefix) <= Len(s)
    /\ \A i \in 1..Len(prefix) : s[i] = prefix[i]

Radarr0 == <<"R", "a", "d", "a", "r", "r", "0">>

Sonarr0 == <<"S", "o", "n", "a", "r", "r", "0">>

RadarrPrefix == <<"R", "a", "d", "a", "r", "r">>

SonarrPrefix == <<"S", "o", "n", "a", "r", "r">>

StalledToken == <<"s", "t", "a", "l", "l", "e", "d">>

ConnectionToken == <<"c", "o", "n", "n", "e", "c", "t", "i", "o", "n">>

MetadataToken == <<"d", "o", "w", "n", "l", "o", "a", "d", "i", "n", "g", " ",
                   "m", "e", "t", "a", "d", "a", "t", "a">>

\* ------------------------------------------------------------- datetimes
\* datetime.isoformat(): the text stored in the column first_detected
IsoFormat(t) == [iso |-> t]

\* datetime.fromisoformat()
FromIsoFormat(s) == s.iso

\* ---------------------------------------------------------- the database
\* the SELECT without its WHERE clause: the rows of every backend
get_stalled_downloads_from_db_every_service(tbl, rws, arr_service) ==
    IF ~tbl THEN [raised |-> TRUE, dict |-> <<>>]
    ELSE [raised |-> FALSE,
          dict |-> [d \in {r.download_id : r \in rws} |->
                      FromIsoFormat((CHOOSE r \in rws : r.download_id = d).first_detected)]]

\* SELECT download_id, first_detected ... WHERE arr_service = ?, as the dict
\* download_id -> first_detected.  Raises when the table does not exist.
get_stalled_downloads_from_db(tbl, rws, arr_service) ==
    IF ~tbl THEN [raised |-> TRUE, dict |-> <<>>]
    ELSE [raised |-> FALSE,
          dict |-> LET mine == {r \in rws : r.arr_service = arr_service}
                   IN [d \in {r.download_id : r \in mine} |->
                         FromIsoFormat((CHOOSE r \in mine : r.download_id = d).first_detected)]]

\* INSERT OR REPLACE instead: the row of the key is overwritten
add_stalled_download_to_db_replace(rws, download_id, first_detected, arr_service) ==
    {r \in rws : ~(r.download_id = download_id /\ r.arr_service = arr_service)}
        \cup {[download_id |-> download_id,
               first_detected |-> IsoFormat(first_detected),
               arr_service |-> arr_service]}

\* added = cursor.rowcount > 0: whether the INSERT OR IGNORE inserted a row
add_stalled_download_added(rws, download_id, arr_service) ==
    ~\E r \in rws : r.download_id = download_id /\ r.arr_service = arr_service

\* INSERT OR IGNORE: the primary key (download_id, arr_service) decides
add_stalled_download_to_db(rws, download_id, first_detected, arr_service) ==
    IF \E r \in rws : r.download_id = download_id /\ r.arr_service = arr_service
    THEN rws
    ELSE rws \cup {[download_id |-> download_id,
                    first_detected |-> IsoFormat(first_detected),
                    arr_service |-> arr_service]}

\* DELETE FROM stalled_downloads WHERE download_id = ? AND arr_service = ?
remove_stalled_download_from_db(rws, download_id, arr_service) ==
    {r \in rws : ~(r.download_id = download_id /\ r.arr_service = arr_service)}

\* ------------------------------------------------------------------ JSON
\* item.get(key): None for a missing key and for null
Get(field) == IF field.json = "value" THEN Some(field.v) ELSE None

\* item.get(key, default)
GetDefault(field, default) ==
    IF field.json = "missing" THEN Some(default) ELSE Get(field)

\* key in item
HasKey(field) == field.json # "missing"

\* truth value of an int that may be None
Truthy(x) == x # None /\ x[1] # 0

\* truth value of a list that may be None
TruthyList(x) == x # None /\ Len(x[1]) > 0

\* ------------------------------------------------------------------ HTTP
\* What the backend answers to DELETE /queue/{id}: a status code, or 0 when
\* the request raised before any response (connection error, timeout).
DeleteResponses == {0, 200, 404, 500}

\* response.raise_for_status()
raises_for_status(status_code) == status_code >= 400

\* delete_api reporting a 404 as a successful removal
delete_api_404_success(response) ==
    IF response = 0 THEN FALSE
    ELSE IF response = 404 THEN TRUE
    ELSE IF raises_for_status(response) THEN FALSE
    ELSE TRUE

\* delete_api: True only when the backend acknowledged the delete
delete_api(response) ==
    IF response = 0 THEN FALSE
    ELSE IF response = 404 THEN FALSE
    ELSE IF raises_for_status(response) THEN FALSE
    ELSE TRUE

DeleteRequest(i, download_id, response) ==
    [op |-> "DELETE", i |-> i, download_id |-> download_id,
     body |-> [blocklist |-> "true", skipRedownload |-> "false"],
     response |-> response]

PostRequest(i, download_id, data) ==
    [op |-> "POST", i |-> i, download_id |-> download_id,
     body |-> data, response |-> 0]

\* search_command without the Radarr branch
search_command_sonarr_only(action, i, download_id, movie_id, service_name, episode_ids, series_id) ==
    IF action # "BLOCKLIST_AND_SEARCH" THEN <<>>
    ELSE IF StartsWith(service_name, SonarrPrefix)
    THEN IF TruthyList(episode_ids)
         THEN <<PostRequest(i, download_id,
                   [name |-> "EpisodeSearch", episodeIds |-> episode_ids[1]])>>
         ELSE IF Truthy(series_id)
         THEN <<PostRequest(i, download_id,
                   [name |-> "SeriesSearch", seriesId |-> series_id[1]])>>
         ELSE <<>>
    ELSE <<>>

\* step 2 of perform_action: the search command, if any
search_command(action, i, download_id, movie_id, service_name, episode_ids, series_id) ==
    IF action # "BLOCKLIST_AND_SEARCH" THEN <<>>
    ELSE IF StartsWith(service_name, SonarrPrefix)
    THEN IF TruthyList(episode_ids)
         THEN <<PostRequest(i, download_id,
                   [name |-> "EpisodeSearch", episodeIds |-> episode_ids[1]])>>
         ELSE IF Truthy(series_id)
         THEN <<PostRequest(i, download_id,
                   [name |-> "SeriesSearch", seriesId |-> series_id[1]])>>
         ELSE <<>>
    ELSE IF StartsWith(service_name, RadarrPrefix) /\ Truthy(movie_id)
    THEN <<PostRequest(i, download_id,
              [name |-> "MoviesSearch", movieIds |-> <<movie_id[1]>>])>>
    ELSE <<>>

\* perform_action without the early return after a failed delete
perform_action_no_guard(action, i, download_id, movie_id, service_name, episode_ids, series_id, response) ==
    <<DeleteRequest(i, download_id, response)>>
        \o search_command(action, i, download_id, movie_id, service_name,
                          episode_ids, series_id)

\* perform_action searching after every successful delete, whatever
\* STALLED_ACTION is
perform_action_search_always(action, i, download_id, movie_id, service_name, episode_ids, series_id, response) ==
    LET success == delete_api(response)
        deleted == <<DeleteRequest(i, download_id, response)>>
    IN  IF ~success
        THEN deleted
        ELSE deleted \o search_command("BLOCKLIST_AND_SEARCH", i, download_id,
                                       movie_id, service_name, episode_ids,
                                       series_id)

\* perform_action: the requests it sends, in order
perform_action(action, i, download_id, movie_id, service_name, episode_ids, series_id, response) ==
    LET success == delete_api(response)
        deleted == <<DeleteRequest(i, download_id, response)>>
    IN  IF ~success /\ action # "REMOVE"
        THEN deleted
        ELSE deleted \o search_command(action, i, download_id, movie_id,
                                       service_name, episode_ids, series_id)

\* ------------------------------------------------------- queue item records
Item(id, status, errorMessage, movieId, seriesId, episodeId, episodeIds) ==
    [id |-> id, status |-> status, errorMessage |-> errorMessage,
     movieId |-> movieId, seriesId |-> seriesId,
     episodeId |-> episodeId, episodeIds |-> episodeIds]

\* error_msg = item.get("errorMessage", "").lower(): None has no lower()
error_msg_raises(item) == GetDefault(item.errorMessage, <<>>) = None

error_msg(item) == Lower(GetDefault(item.errorMessage, <<>>)[1])

\* is_target accepting the status "warning" in the metadata mode too
is_target_status_in_both_modes(item, metadata_check) ==
    LET msg == error_msg(item)
    IN  \/ metadata_check /\ Contains(MetadataToken, msg)
        \/ ~metadata_check /\ (Contains(StalledToken, msg) \/ Contains(ConnectionToken, msg))
        \/ Get(item.status) = Some("warning")

\* the classification of one record (only evaluated when error_msg exists)
is_target(item, metadata_check) ==
    LET msg == error_msg(item)
    IN  IF metadata_check
        THEN Contains(MetadataToken, msg)
        ELSE \/ Contains(StalledToken, msg)
             \/ Contains(ConnectionToken, msg)
             \/ Get(item.status) = Some("warning")

\* download_id = str(item["id"]): a missing key raises, null gives "None"
download_id_raises(item) == ~HasKey(item.id)

download_id_of(item) ==
    IF Get(item.id) = None THEN <<"N", "o", "n", "e">> ELSE Str(item.id.v)

\* episode_ids_of preferring the list episodeIds to the single episodeId
episode_ids_of_list_first(item) ==
    IF HasKey(item.episodeIds) /\ TruthyList(Get(item.episodeIds))
    THEN Some(item.episodeIds.v)
    ELSE IF HasKey(item.episodeId) /\ Truthy(Get(item.episodeId))
    THEN Some(<<item.episodeId.v>>)
    ELSE None

\* the episode ids handed to perform_action
episode_ids_of(item) ==
    IF HasKey(item.episodeId) /\ Truthy(Get(item.episodeId))
    THEN Some(<<item.episodeId.v>>)
    ELSE IF HasKey(item.episodeIds) /\ TruthyList(Get(item.episodeIds))
    THEN Some(item.episodeIds.v)
    ELSE None

\* elapsed = (datetime.now(timezone.utc) - first_detected).total_seconds()
elapsed(db_stalled, download_id, t) == t - db_stalled[download_id]

\* db_logic acting as soon as elapsed reaches the timeout
db_logic_at_timeout(timeout, db_stalled, download_id, t) ==
    IF download_id \in DOMAIN db_stalled
    THEN IF elapsed(db_stalled, download_id, t) >= timeout THEN "act" ELSE "wait"
    ELSE "new"

\* db_logic acting on a new download at once when the timeout is 0
db_logic_no_grace(timeout, db_stalled, download_id, t) ==
    IF download_id \in DOMAIN db_stalled
    THEN IF elapsed(db_stalled, download_id, t) > timeout THEN "act" ELSE "wait"
    ELSE IF timeout = 0 THEN "act" ELSE "new"

\* db_logic starting the timer again when the time of a download is up
db_logic_restart_timer(timeout, db_stalled, download_id, t) ==
    IF download_id \in DOMAIN db_stalled
    THEN IF elapsed(db_stalled, download_id, t) > timeout THEN "new" ELSE "wait"
    ELSE "new"

\* The "DB Logic" of the loop: act on a tracked download whose time is up,
\* wait for a tracked one whose time is not, start the timer of a new one.
db_logic(timeout, db_stalled, download_id, t) ==
    IF download_id \in DOMAIN db_stalled
    THEN IF elapsed(db_stalled, download_id, t) > timeout THEN "act" ELSE "wait"
    ELSE "new"

DbEvent(op, i, download_id, body) ==
    [op |-> op, i |-> i, download_id |-> download_id, body |-> body, response |-> 0]

\* ------------------------------------------------------ check_queue_and_act
\* One iteration of `for item in records`.  st is the loop's state: the rows
\* of the table, the requests and table writes made so far (trace), and
\* whether an exception left the loop.
loop_body(st, i, item, timeout, action, service_name, metadata_check, db_stalled, t, response) ==
    IF st.raised THEN st
    ELSE IF error_msg_raises(item) THEN [st EXCEPT !.raised = TRUE]
    ELSE IF ~is_target(item, metadata_check) THEN st
    ELSE IF download_id_raises(item) THEN [st EXCEPT !.raised = TRUE]
    ELSE
      LET download_id == download_id_of(item)
          todo == db_logic(timeout, db_stalled, download_id, t)
      IN  IF todo = "act"
          THEN [st EXCEPT
                  !.trace = st.trace
                      \o perform_action(action, i, download_id, Get(item.movieId),
                                        service_name, episode_ids_of(item),
                                        Get(item.seriesId), response)
                      \o <<DbEvent("REMOVE", i, download_id, <<>>)>>,
                  !.rows = remove_stalled_download_from_db(st.rows, download_id,
                                                           service_name)]
          ELSE IF todo = "wait" THEN st
          ELSE [st EXCEPT
                  !.trace = st.trace
                      \o <<DbEvent("INSERT", i, download_id, IsoFormat(t))>>,
                  !.rows = add_stalled_download_to_db(st.rows, download_id, t,
                                                      service_name)]

RECURSIVE for_item_in_records(_, _, _, _, _, _, _, _, _, _)
for_item_in_records(st, i, records, timeout, action, service_name, metadata_check, db_stalled, t, responses) ==
    IF i > Len(records) THEN st
    ELSE for_item_in_records(
             loop_body(st, i, records[i], timeout, action, service_name,
                       metadata_check, db_stalled, t, responses[i]),
             i + 1, records, timeout, action, service_name, metadata_check,
             db_stalled, t, responses)

\* The whole of check_queue_and_act on the fetched records: the new rows, the
\* trace, the snapshot db_stalled it read and whether it raised.
check_queue_and_act_result(tbl, rws, records, timeout, action, service_name, metadata_check, t, responses) ==
    IF records = <<>>
    THEN [rows |-> rws, trace |-> <<>>, raised |-> FALSE, db_stalled |-> <<>>]
    ELSE LET got == get_stalled_downloads_from_db(tbl, rws, service_name)
         IN  IF got.raised
             THEN [rows |-> rws, trace |-> <<>>, raised |-> TRUE, db_stalled |-> <<>>]
             ELSE LET st == for_item_in_records(
                                [rows |-> rws, trace |-> <<>>, raised |-> FALSE],
                                1, records, timeout, action, service_name,
                                metadata_check, got.dict, t, responses)
                  IN  [rows |-> st.rows, trace |-> st.trace, raised |-> st.raised,
                       db_stalled |-> got.dict]

\* ------------------------------------------------------------ the backends
MetadataMessage == <<"D", "o", "w", "n", "l", "o", "a", "d", "i", "n", "g", " ",
                     "M", "e", "t", "a", "d", "a", "t", "a">>

\* Records a Radarr queue may return.  Radarr numbers its rows from 1.
RadarrItems ==
    { Item(Value(41), Value("warning"), Missing, Value(7), Missing, Missing, Missing),
      Item(Value(42), Value("warning"), Value(MetadataMessage), Missing, Missing, Missing, Missing),
      Item(Missing, Value("warning"), Missing, Value(7), Missing, Missing, Missing) }

\* Records a Sonarr queue may return (includeEpisode=true).
SonarrItems ==
    { Item(Value(50), Value("warning"), Missing, Missing, Value(5), Value(10), Missing) }

\* What query_api_paginated may return: any sequence of records of the
\* backend, the empty one included (an empty queue or a failed request).
SeqsUpTo(S, n) == UNION { [1..k -> S] : k \in 0..n }

RadarrQueues == SeqsUpTo(RadarrItems, MaxRecords)

SonarrQueues == SeqsUpTo(SonarrItems, MaxRecords)

QueuesOf(service_name) ==
    IF StartsWith(service_name, SonarrPrefix) THEN SonarrQueues ELSE RadarrQueues

\* the positions of records whose remediation the cycle will attempt
Due(records, timeout, service_name, metadata_check, db_stalled, t) ==
    { i \in 1..Len(records) :
        /\ ~error_msg_raises(records[i])
        /\ is_target(records[i], metadata_check)
        /\ ~download_id_raises(records[i])
        /\ db_logic(timeout, db_stalled, download_id_of(records[i]), t) = "act" }

\* the positions of the records that are classified and carry an id
Classified(records, metadata_check) ==
    { i \in 1..Len(records) :
        /\ ~error_msg_raises(records[i])
        /\ is_target(records[i], metadata_check)
        /\ ~download_id_raises(records[i]) }

\* The history `run` after a poll of (service_name, metadata_check) at time t:
\* a download the poll classified keeps the start of its run or starts one,
\* a download it did not classify has no run any more.
run_after(old, records, service_name, metadata_check, t) ==
    LET others == {x \in old : ~(x.service_name = service_name
                                  /\ x.metadata_check = metadata_check)}
        mine == {x \in old : x.service_name = service_name
                              /\ x.metadata_check = metadata_check}
        seen == {download_id_of(records[i]) : i \in Classified(records, metadata_check)}
    IN  others \cup
        { [service_name |-> service_name, metadata_check |-> metadata_check,
           download_id |-> d,
           since |-> IF \E x \in mine : x.download_id = d
                     THEN (CHOOSE x \in mine : x.download_id = d).since
                     ELSE t] : d \in seen }

\* no function is run on its own
NoCall == <<>>

NoCycle ==
    [service_name |-> <<>>, metadata_check |-> FALSE, records |-> <<>>,
     db_stalled |-> <<>>, trace |-> <<>>, raised |-> FALSE, before |-> {},
     at |-> 0]

Init ==
    /\ STALLED_TIMEOUT \in {0, MaxTimeout}
    /\ STALLED_ACTION \in {"REMOVE", "BLOCKLIST_AND_SEARCH"}
    /\ COUNT_DOWNLOADING_METADATA_AS_STALLED \in BOOLEAN
    \* stalled_downloads.db may be left by an earlier run of the program
    /\ table \in BOOLEAN
    /\ rows = {}
    /\ now = 0
    /\ pc = "initialize_database"
    /\ cycle = NoCycle
    /\ run = {}
    /\ call = NoCall

\* initialize_database(), called once at startup
InitializeDatabase ==
    /\ pc = "initialize_database"
    /\ table' = IF STALLED_TIMEOUT = 0 THEN table ELSE TRUE
    /\ pc' = "radarr"
    /\ UNCHANGED <<config, call, rows, now, cycle, run>>

\* One call of check_queue_and_act from the main loop, at position `here`.
\* `track` says whether the history `run` is kept.
CheckQueueAndAct(service_name, metadata_check, here, track) ==
    /\ pc = here
    /\ \E records \in QueuesOf(service_name) :
         \E answer \in [Due(records, STALLED_TIMEOUT, service_name, metadata_check,
                            get_stalled_downloads_from_db(table, rows, service_name).dict,
                            now) -> DeleteResponses] :
           \E r \in {check_queue_and_act_result(table, rows, records,
                        STALLED_TIMEOUT, STALLED_ACTION, service_name,
                        metadata_check, now,
                        [i \in 1..Len(records) |->
                            IF i \in DOMAIN answer THEN answer[i] ELSE 0])} :
                   /\ rows' = r.rows
                   /\ cycle' = [service_name |-> service_name,
                                metadata_check |-> metadata_check,
                                records |-> records,
                                db_stalled |-> r.db_stalled,
                                trace |-> r.trace,
                                raised |-> r.raised,
                                before |-> rows,
                                at |-> now]
                   /\ run' = IF track
                             THEN run_after(run, records, service_name,
                                            metadata_check, now)
                             ELSE run
    /\ pc' = "returned"
    /\ UNCHANGED <<config, call, table, now>>

CheckRadarr == CheckQueueAndAct(Radarr0, FALSE, "radarr", FALSE)

CheckRadarrTracked == CheckQueueAndAct(Radarr0, FALSE, "radarr", TRUE)

CheckRadarrMetadata == CheckQueueAndAct(Radarr0, TRUE, "radarr_metadata", FALSE)

CheckSonarr == CheckQueueAndAct(Sonarr0, FALSE, "sonarr", FALSE)

CheckSonarrTracked == CheckQueueAndAct(Sonarr0, FALSE, "sonarr", TRUE)

CheckSonarrMetadata == CheckQueueAndAct(Sonarr0, TRUE, "sonarr_metadata", FALSE)

\* The main loop after a call returned: the next call of the sweep, or the
\* sleep.  An exception leaves the `while True` loop: the handler logs it
\* and the program ends.
next_position(raised, service_name, metadata_check, count_metadata) ==
    IF raised THEN "exit"
    ELSE IF service_name = Radarr0
    THEN IF ~metadata_check /\ count_metadata THEN "radarr_metadata" ELSE "sonarr"
    ELSE IF ~metadata_check /\ count_metadata THEN "sonarr_metadata" ELSE "sleep"

MainLoop ==
    /\ pc = "returned"
    /\ pc' = next_position(cycle.raised, cycle.service_name, cycle.metadata_check,
                           COUNT_DOWNLOADING_METADATA_AS_STALLED)
    /\ cycle' = NoCycle
    /\ UNCHANGED <<config, call, table, rows, now, run>>

\* time.sleep(RUN_INTERVAL)
Sleep ==
    /\ pc = "sleep"
    /\ \E interval \in 1..(MaxTime - now) : now' = now + interval
    /\ pc' = "radarr"
    /\ UNCHANGED <<config, call, table, rows, cycle, run>>

\* The clock also advances while a sweep is under way (requests take time).
Tick ==
    /\ pc \in {"radarr_metadata", "sonarr_metadata"}
    /\ now < MaxTime
    /\ now' = now + 1
    /\ UNCHANGED <<config, call, table, rows, pc, cycle, run>>

Next ==
    \/ InitializeDatabase
    \/ CheckRadarr
    \/ CheckRadarrMetadata
    \/ CheckSonarr
    \/ CheckSonarrMetadata
    \/ MainLoop
    \/ Sleep
    \/ Tick

Spec == Init /\ [][Next]_vars

\* The program in its default configuration (no metadata polls), with the
\* history `run` kept: every sweep polls each backend once.
InitHistory ==
    /\ Init
    /\ ~COUNT_DOWNLOADING_METADATA_AS_STALLED

NextHistory ==
    \/ InitializeDatabase
    \/ CheckRadarrTracked
    \/ CheckSonarrTracked
    \/ MainLoop
    \/ Sleep

SpecHistory == InitHistory /\ [][NextHistory]_vars

\* ------------------------------------------------- one remediation alone
\* Records of every shape the id extraction distinguishes.
SearchItems ==
    { Item(Value(50), Value("warning"), Missing, movieId, seriesId, episodeId, episodeIds) :
        movieId \in {Missing, Value(7)},
        seriesId \in {Missing, Null, Value(5)},
        episodeId \in {Missing, Null, Value(10)},
        episodeIds \in {Missing, Null, Value(<<>>), Value(<<10, 11>>)} }

InitSearch ==
    /\ STALLED_TIMEOUT \in {0, MaxTimeout}
    /\ STALLED_ACTION \in {"REMOVE", "BLOCKLIST_AND_SEARCH"}
    /\ COUNT_DOWNLOADING_METADATA_AS_STALLED \in BOOLEAN
    /\ table = TRUE
    /\ rows = {}
    /\ now = 0
    /\ pc = "remediate"
    /\ cycle = NoCycle
    /\ run = {}
    /\ call = NoCall

\* The id extraction of check_queue_and_act followed by perform_action, for
\* one record of one backend.
Remediate ==
    /\ pc = "remediate"
    /\ \E service_name \in {Radarr0, Sonarr0}, item \in SearchItems,
          response \in DeleteResponses :
          cycle' = [NoCycle EXCEPT
                      !.service_name = service_name,
                      !.records = <<item>>,
                      !.trace = perform_action(STALLED_ACTION, 1, download_id_of(item),
                                               Get(item.movieId), service_name,
                                               episode_ids_of(item),
                                               Get(item.seriesId), response)]
    /\ pc' = "remediated"
    /\ UNCHANGED <<config, call, table, rows, now, run>>

NextRecord ==
    /\ pc = "remediated"
    /\ pc' = "remediate"
    /\ cycle' = NoCycle
    /\ UNCHANGED <<config, call, table, rows, now, run>>

NextSearch == Remediate \/ NextRecord

SpecSearch == InitSearch /\ [][NextSearch]_vars

\* ------------------------------------------------ the classification alone
StalledUpper == <<"S", "T", "A", "L", "L", "E", "D">>

ConnectionCapital == <<"C", "o", "n", "n", "e", "c", "t", "i", "o", "n">>

\* Error messages a backend may send: a token of the classification, in
\* lower, upper or mixed case, whole or cut short, alone or inside a text.
ClassifyMessages ==
    { before \o core \o after :
        before \in {<<>>, <<"n", "o", " ">>},
        core \in {<<>>, StalledToken, StalledUpper, SubSeq(StalledToken, 1, 6),
                  ConnectionToken, ConnectionCapital, MetadataToken,
                  MetadataMessage, SubSeq(MetadataToken, 1, 11)},
        after \in {<<>>, <<"!">>} }

\* Queue records of every shape the classification distinguishes.
ClassifyItems ==
    { Item(Value(41), status, errorMessage, Missing, Missing, Missing, Missing) :
        status \in {Missing, Null, Value("warning"), Value("Warning"), Value("queued")},
        errorMessage \in {Missing, Null} \cup {Value(m) : m \in ClassifyMessages} }

\* The classification of one record as the loop does it: the result, or the
\* exception that .lower() raises on None.
classify(item, metadata_check) ==
    IF error_msg_raises(item)
    THEN [raised |-> TRUE, is_target |-> FALSE]
    ELSE [raised |-> FALSE, is_target |-> is_target(item, metadata_check)]

InitClassify ==
    /\ STALLED_TIMEOUT = MaxTimeout
    /\ STALLED_ACTION = "BLOCKLIST_AND_SEARCH"
    /\ COUNT_DOWNLOADING_METADATA_AS_STALLED = TRUE
    /\ table = TRUE
    /\ rows = {}
    /\ now = 0
    /\ pc = "classify"
    /\ cycle = NoCycle
    /\ run = {}
    /\ \E item \in ClassifyItems, metadata_check \in BOOLEAN :
          call = [item |-> item, metadata_check |-> metadata_check]

Classify ==
    /\ pc = "classify"
    /\ \E result \in {classify(call.item, call.metadata_check)} :
          call' = [item |-> call.item, metadata_check |-> call.metadata_check,
                   raised |-> result.raised, is_target |-> result.is_target]
    /\ pc' = "classified"
    /\ UNCHANGED <<config, table, rows, now, cycle, run>>

NextClassify == Classify

SpecClassify == InitClassify /\ [][NextClassify]_vars

\* ------------------------------------------------------- the store alone
StoreIds == {Str(41), Str(42)}

StoreServices == {Radarr0, Sonarr0}

InitStore ==
    /\ STALLED_TIMEOUT = MaxTimeout
    /\ STALLED_ACTION = "BLOCKLIST_AND_SEARCH"
    /\ COUNT_DOWNLOADING_METADATA_AS_STALLED = FALSE
    /\ table = TRUE
    /\ rows = {}
    /\ now = 0
    /\ pc = "store"
    /\ cycle = NoCycle
    /\ run = {}
    /\ call = NoCall

\* one call of add_stalled_download_to_db
AddStalledDownload ==
    /\ \E download_id \in StoreIds, first_detected \in 0..MaxTime,
          arr_service \in StoreServices :
          /\ rows' = add_stalled_download_to_db(rows, download_id, first_detected,
                                                arr_service)
          /\ call' = [op |-> "add", download_id |-> download_id,
                      first_detected |-> first_detected,
                      arr_service |-> arr_service, before |-> rows,
                      added |-> add_stalled_download_added(rows, download_id,
                                                           arr_service)]
    /\ pc' = "stored"
    /\ UNCHANGED <<config, table, now, cycle, run>>

\* one call of remove_stalled_download_from_db
RemoveStalledDownload ==
    /\ \E download_id \in StoreIds, arr_service \in StoreServices :
          /\ rows' = remove_stalled_download_from_db(rows, download_id, arr_service)
          /\ call' = [op |-> "remove", download_id |-> download_id,
                      first_detected |-> 0,
                      arr_service |-> arr_service, before |-> rows,
                      added |-> FALSE]
    /\ pc' = "stored"
    /\ UNCHANGED <<config, table, now, cycle, run>>

NextStore == AddStalledDownload \/ RemoveStalledDownload

SpecStore == InitStore /\ [][NextStore]_vars

\* ---------------------------------------------------- the pagination alone
\* page_size=50, the default of query_api_paginated
page_size == 50

\* What query_api returns: None after a request error, or the decoded JSON,
\* which is an object or something else (a list).
NoResponse == [type |-> "none"]

ListResponse == [type |-> "list"]

DictResponse(records, totalRecords) ==
    [type |-> "dict", records |-> records, totalRecords |-> totalRecords]

\* the n records of a backend, told apart by their position in its queue
Queue(n) == [i \in 1..n |-> i]

\* the records of page number page
PageOf(queue, page) ==
    LET first == (page - 1) * page_size + 1
        last == IF page * page_size < Len(queue) THEN page * page_size ELSE Len(queue)
    IN  IF first > last THEN <<>> ELSE SubSeq(queue, first, last)

\* the answer of a backend that holds n records, serves them in pages of
\* page_size and reports totalRecords = n on every page
PagedResponse(n, page) == DictResponse(Value(PageOf(Queue(n), page)), Value(n))

\* the answers of a backend of which nothing is known
AnyResponses ==
    {NoResponse, ListResponse}
        \cup { DictResponse(records, totalRecords) :
                 records \in {Missing, Null, Value(<<>>), Value(<<1>>), Value(<<1, 2>>)},
                 totalRecords \in {Missing, Null, Value(0), Value(1), Value(3)} }

Backends == {[kind |-> "paged", n |-> n] : n \in 0..MaxQueue} \cup {[kind |-> "any", n |-> 0]}

ResponsesOf(backend, page) ==
    IF backend.kind = "paged" THEN {PagedResponse(backend.n, page)} ELSE AnyResponses

\* the test of the total, strict
reached_total_strict(total_records, all_records) ==
    Truthy(total_records) /\ Len(all_records) > total_records[1]

\* total_records and len(all_records) >= total_records
reached_total(total_records, all_records) ==
    Truthy(total_records) /\ Len(all_records) >= total_records[1]

\* One turn of the `while True` of query_api_paginated on the response to the
\* request of page st.page.  st holds the locals; running says whether the
\* loop goes on.
while_body(st, response) ==
    LET asked == [st EXCEPT !.requests = st.requests \o <<st.page>>,
                            !.last = response]
    IN  IF response.type # "dict" \/ ~HasKey(response.records)
        THEN [asked EXCEPT !.running = FALSE]
        ELSE LET records == GetDefault(response.records, <<>>)
                 total_records == IF HasKey(response.totalRecords)
                                  THEN Get(response.totalRecords)
                                  ELSE st.total_records
             IN  IF ~TruthyList(records)
                 THEN [asked EXCEPT !.total_records = total_records,
                                    !.running = FALSE]
                 ELSE LET all_records == st.all_records \o records[1]
                      IN  IF reached_total(total_records, all_records)
                          THEN [asked EXCEPT !.total_records = total_records,
                                             !.all_records = all_records,
                                             !.running = FALSE]
                          ELSE [asked EXCEPT !.total_records = total_records,
                                             !.all_records = all_records,
                                             !.page = st.page + 1]

InitPaginate ==
    /\ STALLED_TIMEOUT = MaxTimeout
    /\ STALLED_ACTION = "BLOCKLIST_AND_SEARCH"
    /\ COUNT_DOWNLOADING_METADATA_AS_STALLED = FALSE
    /\ table = TRUE
    /\ rows = {}
    /\ now = 0
    /\ pc = "query_api"
    /\ cycle = NoCycle
    /\ run = {}
    /\ \E backend \in Backends :
          call = [backend |-> backend, all_records |-> <<>>, page |-> 1,
                  total_records |-> None, running |-> TRUE, requests |-> <<>>,
                  last |-> NoResponse]

\* query_api for the next page and the rest of the turn of the loop
QueryApiPage ==
    /\ pc = "query_api"
    /\ Len(call.requests) < MaxRequests
    /\ \E response \in ResponsesOf(call.backend, call.page) :
         \E st \in {while_body(call, response)} :
            /\ call' = st
            /\ pc' = IF st.running THEN "query_api" ELSE "fetched"
    /\ UNCHANGED <<config, table, rows, now, cycle, run>>

NextPaginate == QueryApiPage

SpecPaginate == InitPaginate /\ [][NextPaginate]_vars

\* --------------------------------------- a download that stays stalled
\* The program with a table to read, a Radarr queue that returns the same
\* stalled download in every sweep and an empty Sonarr queue, running for
\* ever.  The code only uses differences of datetimes (elapsed = now -
\* first_detected) and only compares them with STALLED_TIMEOUT, so the clock
\* is kept finite by moving its origin to the present at every sleep: now
\* stays 0 and every first_detected moves back by the time slept, but not
\* further back than STALLED_TIMEOUT + 1, where its time is up already.
StalledItem ==
    Item(Value(41), Value("warning"), Missing, Value(7), Missing, Missing, Missing)

\* a datetime before the present, told apart only while its time is not up
Oldest(t, timeout) == IF t < 0 - (timeout + 1) THEN 0 - (timeout + 1) ELSE t

InitLive ==
    /\ Init
    /\ STALLED_TIMEOUT = 0 => table

CheckRadarrLive == CheckRadarr /\ cycle'.records = <<StalledItem>>

CheckRadarrMetadataLive == CheckRadarrMetadata /\ cycle'.records = <<StalledItem>>

CheckSonarrLive == CheckSonarr /\ cycle'.records = <<>>

CheckSonarrMetadataLive == CheckSonarrMetadata /\ cycle'.records = <<>>

\* time.sleep(RUN_INTERVAL), seen from the new origin of the clock
SleepLive ==
    /\ pc = "sleep"
    /\ \E interval \in 1..MaxTime :
          rows' = { [r EXCEPT !.first_detected =
                        IsoFormat(Oldest(FromIsoFormat(r.first_detected) - interval,
                                         STALLED_TIMEOUT))] :
                    r \in rows }
    /\ pc' = "radarr"
    /\ UNCHANGED <<config, call, table, now, cycle, run>>

NextLive ==
    \/ InitializeDatabase
    \/ CheckRadarrLive
    \/ CheckRadarrMetadataLive
    \/ CheckSonarrLive
    \/ CheckSonarrMetadataLive
    \/ MainLoop
    \/ SleepLive

\* The main loop is one sequential thread: it always takes its next step.
SpecLive == InitLive /\ [][NextLive]_vars /\ WF_vars(NextLive)

\* ================================================================= claims
Returned == pc = "returned"

\* the requests and table writes the cycle made for the record at position i
EventsOf(i) == SelectSeq(cycle.trace, LAMBDA e : e.i = i)

TraceEvents == {cycle.trace[k] : k \in 1..Len(cycle.trace)}

\* the backend acknowledged the delete (a 2xx answer)
Acknowledged(response) == response \in 200..299

\* the delete failed otherwise than by a 404
FailedNot404(response) == response = 0 \/ (response >= 400 /\ response # 404)

\* processing the record raises
ItemRaises(item, metadata_check) ==
    \/ error_msg_raises(item)
    \/ is_target(item, metadata_check) /\ download_id_raises(item)

\* the positions the loop of the cycle got to, in a cycle that read the table
Reached ==
    { i \in 1..Len(cycle.records) :
        /\ table
        /\ \A j \in 1..(i - 1) : ~ItemRaises(cycle.records[j], cycle.metadata_check) }

\* the positions of the classified records the loop got to
Handled == Reached \cap Classified(cycle.records, cycle.metadata_check)

\* the rows of a table for one key
RowsOf(rws, download_id, arr_service) ==
    {r \in rws : r.download_id = download_id /\ r.arr_service = arr_service}

\* a search command exists for the record: a movie id on Radarr, episode ids
\* or a series id on Sonarr
Searchable(item, service_name) ==
    IF StartsWith(service_name, SonarrPrefix)
    THEN item.episodeId.json = "value" \/ item.episodeIds.json = "value"
         \/ item.seriesId.json = "value"
    ELSE item.movieId.json = "value"

\* C1: under BLOCKLIST_AND_SEARCH, a remediation whose delete failed with a
\* non-404 error sends no search command, and every search command sent was
\* preceded by the acknowledged delete of the same remediation.
C1_NoSearchAfterFailedDelete ==
    (Returned /\ STALLED_ACTION = "BLOCKLIST_AND_SEARCH") =>
        \A k \in 1..Len(cycle.trace) :
            LET e == cycle.trace[k]
            IN  /\ (e.op = "DELETE" /\ FailedNot404(e.response)) =>
                      \A f \in TraceEvents : f.op = "POST" => f.i # e.i
                /\ e.op = "POST" =>
                      \E j \in 1..(k - 1) :
                          /\ cycle.trace[j].op = "DELETE"
                          /\ cycle.trace[j].i = e.i
                          /\ Acknowledged(cycle.trace[j].response)

C1_Witness ==
    /\ Returned
    /\ STALLED_ACTION = "BLOCKLIST_AND_SEARCH"
    /\ \E e \in TraceEvents :
          /\ e.op = "DELETE"
          /\ FailedNot404(e.response)
          /\ Searchable(cycle.records[e.i], cycle.service_name)

\* C2: after a delete that failed with a non-404 error, the row of the
\* download is still in the table with the first_detected it had.
C2_RecordRetainedAfterFailedDelete ==
    Returned =>
        \A e \in TraceEvents :
            (e.op = "DELETE" /\ FailedNot404(e.response)) =>
                \E r \in RowsOf(rows, e.download_id, cycle.service_name) :
                    FromIsoFormat(r.first_detected) = cycle.db_stalled[e.download_id]

C4_ActsIffElapsedExceedsTimeout ==
    Returned =>
        \A i \in Handled :
            LET d == download_id_of(cycle.records[i])
            IN  d \in DOMAIN cycle.db_stalled =>
                  LET waited == cycle.at - cycle.db_stalled[d]
                  IN  /\ (\E e \in TraceEvents : e.op = "DELETE" /\ e.i = i)
                            <=> (waited > STALLED_TIMEOUT)
                      /\ (waited <= STALLED_TIMEOUT) =>
                            /\ EventsOf(i) = <<>>
                            /\ RowsOf(rows, d, cycle.service_name)
                                 = RowsOf(cycle.before, d, cycle.service_name)
                            /\ RowsOf(rows, d, cycle.service_name) # {}

C4_Witness ==
    /\ Returned
    /\ STALLED_TIMEOUT > 0
    /\ \E i \in Handled :
          LET d == download_id_of(cycle.records[i])
          IN  /\ d \in DOMAIN cycle.db_stalled
              /\ cycle.at - cycle.db_stalled[d] = STALLED_TIMEOUT

\* C5: a classified record whose download is not tracked gets its row, with
\* first_detected = now, and nothing else; a delete or a search is only sent
\* for a download that was tracked before the cycle began.
C5_NewItemOnlyInserted ==
    Returned =>
        /\ \A i \in Handled :
              LET d == download_id_of(cycle.records[i])
              IN  d \notin DOMAIN cycle.db_stalled =>
                    /\ EventsOf(i) = <<DbEvent("INSERT", i, d, IsoFormat(cycle.at))>>
                    /\ \E r \in RowsOf(rows, d, cycle.service_name) :
                          FromIsoFormat(r.first_detected) = cycle.at
        /\ \A e \in TraceEvents :
              e.op \in {"DELETE", "POST"} =>
                  /\ e.download_id \in DOMAIN cycle.db_stalled
                  /\ \A f \in TraceEvents :
                        f.op = "INSERT" => f.download_id # e.download_id

C5_Witness ==
    /\ Returned
    /\ STALLED_TIMEOUT = 0
    /\ \E i \in Handled :
          download_id_of(cycle.records[i]) \notin DOMAIN cycle.db_stalled

\* C6: every delete sent for a download comes at the end of an uninterrupted
\* run of polls of its backend, longer than STALLED_TIMEOUT, each of which
\* classified the download.
C6_DeleteOnlyAfterContinuousRun ==
    Returned =>
        \A e \in TraceEvents :
            e.op = "DELETE" =>
                \E x \in run :
                    /\ x.service_name = cycle.service_name
                    /\ x.metadata_check = cycle.metadata_check
                    /\ x.download_id = e.download_id
                    /\ cycle.at - x.since > STALLED_TIMEOUT

\* C7: with STALLED_TIMEOUT = 0 and no table created, a cycle over a
\* non-empty queue completes without raising.
C7_CycleCompletesWithoutTable ==
    (Returned /\ STALLED_TIMEOUT = 0 /\ ~table /\ cycle.records # <<>>) =>
        ~cycle.raised

\* C8: in a cycle that read the table, a record that cannot be processed
\* stops neither the classified records after it nor the main loop.
C8_ItemFailureIsolated ==
    (Returned /\ table) =>
        /\ Classified(cycle.records, cycle.metadata_check) \subseteq Reached
        /\ next_position(cycle.raised, cycle.service_name, cycle.metadata_check,
                         COUNT_DOWNLOADING_METADATA_AS_STALLED) # "exit"

\* the record at position i is a tracked Radarr download with a movie id, its
\* time is up and its delete was acknowledged
C9_Case(i) ==
    LET item == cycle.records[i]
        d == download_id_of(item)
    IN  /\ StartsWith(cycle.service_name, RadarrPrefix)
        /\ STALLED_ACTION = "BLOCKLIST_AND_SEARCH"
        /\ item.movieId.json = "value"
        /\ d \in DOMAIN cycle.db_stalled
        /\ cycle.at - cycle.db_stalled[d] > STALLED_TIMEOUT
        /\ \E e \in TraceEvents :
              e.op = "DELETE" /\ e.i = i /\ Acknowledged(e.response)

\* C9: for such a record the cycle sends the delete with blocklist=true and
\* skipRedownload=false, then MoviesSearch with the one movie id, then removes
\* the row, and nothing else; the row is gone after the cycle.
C9_RadarrRemediationSequence ==
    Returned =>
        \A i \in Handled :
            C9_Case(i) =>
                LET item == cycle.records[i]
                    d == download_id_of(item)
                    ev == EventsOf(i)
                IN  /\ Len(ev) = 3
                    /\ ev[1].op = "DELETE"
                    /\ ev[1].download_id = d
                    /\ ev[1].body = [blocklist |-> "true", skipRedownload |-> "false"]
                    /\ ev[2].op = "POST"
                    /\ ev[2].body = [name |-> "MoviesSearch",
                                     movieIds |-> <<item.movieId.v>>]
                    /\ ev[3].op = "REMOVE"
                    /\ ev[3].download_id = d
                    /\ RowsOf(rows, d, cycle.service_name) = {}

C9_Witness ==
    /\ Returned
    /\ \E i \in Handled : C9_Case(i)

\* the search commands of the remediation
SearchCommands ==
    LET posts == SelectSeq(cycle.trace, LAMBDA e : e.op = "POST")
    IN  [k \in 1..Len(posts) |-> posts[k].body]

\* a Sonarr remediation got to its search step
C10_Case ==
    /\ pc = "remediated"
    /\ StartsWith(cycle.service_name, SonarrPrefix)
    /\ STALLED_ACTION = "BLOCKLIST_AND_SEARCH"
    /\ Acknowledged(cycle.trace[1].response)

\* C10: a Sonarr remediation that searches sends one EpisodeSearch with the
\* single episodeId, or else with the list episodeIds, when there is one;
\* else one SeriesSearch with the seriesId when there is one; else nothing.
C10_SonarrSearchChoice ==
    C10_Case =>
        LET item == cycle.records[1]
            ids == IF item.episodeId.json = "value" THEN <<item.episodeId.v>>
                   ELSE IF item.episodeIds.json = "value" THEN item.episodeIds.v
                   ELSE <<>>
        IN  IF ids # <<>>
            THEN SearchCommands = <<[name |-> "EpisodeSearch", episodeIds |-> ids]>>
            ELSE IF item.seriesId.json = "value"
            THEN SearchCommands = <<[name |-> "SeriesSearch",
                                     seriesId |-> item.seriesId.v]>>
            ELSE SearchCommands = <<>>

C10_Witness ==
    /\ C10_Case
    /\ cycle.records[1].episodeId.json # "value"
    /\ cycle.records[1].episodeIds = Value(<<10, 11>>)
    /\ cycle.records[1].seriesId = Value(5)

\* --------------------------------------------------------------- C11, C12
Classified1 == pc = "classified"

\* C11: classifying a queue record never raises, whatever fields the record
\* lacks or carries as null.
C11_ClassificationTotal ==
    Classified1 => ~call.raised

\* tok occurs in s, by comparing every window of s with tok
Occurs(tok, s) ==
    \E k \in 1..(Len(s) - Len(tok) + 1) : SubSeq(s, k, k + Len(tok) - 1) = tok

\* the rule of the specification for a record with a string error message
ReferenceRule(item, metadata_check) ==
    LET msg == Lower(item.errorMessage.v)
    IN  IF metadata_check
        THEN Occurs(MetadataToken, msg)
        ELSE \/ Occurs(StalledToken, msg)
             \/ Occurs(ConnectionToken, msg)
             \/ (item.status.json = "value" /\ item.status.v = "warning")

\* C12: for a record with a string error message the classification is the
\* reference rule: in the metadata mode the lower-cased message contains
\* "downloading metadata" (the status is ignored); in the stalled mode it
\* contains "stalled" or "connection", or the raw status is "warning".
C12_ClassificationIsReferenceRule ==
    (Classified1 /\ call.item.errorMessage.json = "value") =>
        /\ ~call.raised
        /\ call.is_target <=> ReferenceRule(call.item, call.metadata_check)

C12_Witness ==
    /\ Classified1
    /\ call.item.errorMessage = Value(<<"n", "o", " ">> \o StalledUpper)
    /\ call.item.status = Value("warning")
    /\ call.metadata_check
    /\ ~call.is_target

\* -------------------------------------------------------------------- C13
\* C13: add_stalled_download_to_db on a key that has a row leaves that row
\* (and every other row) as it was and returns False; on a key without a row
\* it inserts the one row with the given first_detected and returns True.
C13_InsertIdempotent ==
    (pc = "stored" /\ call.op = "add") =>
        LET old == RowsOf(call.before, call.download_id, call.arr_service)
            new == RowsOf(rows, call.download_id, call.arr_service)
        IN  /\ Cardinality(new) = 1
            /\ old # {} => (new = old /\ rows = call.before /\ ~call.added)
            /\ old = {} =>
                  /\ call.added
                  /\ \A r \in new : FromIsoFormat(r.first_detected) = call.first_detected

C13_Witness ==
    /\ pc = "stored"
    /\ call.op = "add"
    /\ \E r \in RowsOf(call.before, call.download_id, call.arr_service) :
          FromIsoFormat(r.first_detected) < call.first_detected

\* --------------------------------------------------------------- C14, C20
Fetched == pc = "fetched"

\* ceil(n / page_size)
Rounds(n) == (n + page_size - 1) \div page_size

\* C14 as claimed: from a backend that holds n records in pages of page_size
\* and reports totalRecords = n, the n records are returned, each once and in
\* order, after ceil(n / page_size) requests for the pages 1, 2, ...
C14_PaginationComplete ==
    (Fetched /\ call.backend.kind = "paged") =>
        /\ call.all_records = Queue(call.backend.n)
        /\ call.requests = Queue(Rounds(call.backend.n))

\* C14 amended: the same, with one request (for page 1) when the backend
\* holds no record.
C14_PaginationCompleteOneRequestWhenEmpty ==
    (Fetched /\ call.backend.kind = "paged") =>
        /\ call.all_records = Queue(call.backend.n)
        /\ call.requests = Queue(IF call.backend.n = 0 THEN 1
                                 ELSE Rounds(call.backend.n))

C14_Witness ==
    /\ Fetched
    /\ call.backend.kind = "paged"
    /\ call.backend.n = 120
    /\ Len(call.all_records) = 120
    /\ call.requests = <<1, 2, 3>>

\* C20: after a non-empty page from a backend that reports totalRecords = 0
\* or no totalRecords at all, the page loop has stopped.
C20_StopsWithoutTotal ==
    (pc \in {"query_api", "fetched"}
        /\ call.last.type = "dict"
        /\ TruthyList(Get(call.last.records))
        /\ ~Truthy(call.total_records)) =>
        Fetched

\* -------------------------------------------------------------------- C15
\* C15: under STALLED_ACTION = REMOVE a remediation sends the queue-delete
\* with blocklist=true and nothing else, whatever the backend answers.
C15_RemoveNeverSearches ==
    (pc = "remediated" /\ STALLED_ACTION = "REMOVE") =>
        /\ Len(cycle.trace) = 1
        /\ cycle.trace[1].op = "DELETE"
        /\ cycle.trace[1].body.blocklist = "true"
        /\ \A e \in TraceEvents : e.op # "POST"

C15_Witness ==
    /\ pc = "remediated"
    /\ STALLED_ACTION = "REMOVE"
    /\ Acknowledged(cycle.trace[1].response)
    /\ Searchable(cycle.records[1], cycle.service_name)
    /\ Truthy(Get(cycle.records[1].movieId))

\* -------------------------------------------------------------------- C16
\* C16: while every poll of its backend classifies a download, the table
\* holds at most one row for its key and the first_detected of that row is
\* never later than the first poll of that run.
C16_TimerNeverResets ==
    \A x \in run :
        LET tracked == RowsOf(rows, x.download_id, x.service_name)
        IN  /\ Cardinality(tracked) <= 1
            /\ \A r \in tracked : FromIsoFormat(r.first_detected) <= x.since

\* -------------------------------------------------------------------- C17
\* the download ids of the classified records of the cycle
ClassifiedIds ==
    { download_id_of(cycle.records[i]) :
        i \in Classified(cycle.records, cycle.metadata_check) }

\* the row is none of the cycle's business: it belongs to another backend, or
\* to a download that no record of the cycle classifies
Foreign(r, classified) ==
    r.arr_service # cycle.service_name \/ r.download_id \notin classified

\* C17: a cycle neither removes, adds nor changes a row of another backend
\* or of a download that is not a classified record of the cycle, and it
\* reads the rows of its own backend only.
C17_OtherRowsUntouched ==
    Returned =>
        LET classified == ClassifiedIds
        IN  /\ \A r \in cycle.before \cup rows :
                  Foreign(r, classified) => (r \in cycle.before /\ r \in rows)
            /\ \A d \in DOMAIN cycle.db_stalled :
                  \E r \in cycle.before :
                      r.arr_service = cycle.service_name /\ r.download_id = d

C17_Witness ==
    /\ Returned
    /\ rows # cycle.before
    /\ \E r \in rows :
          r.arr_service = cycle.service_name /\ r.download_id \notin ClassifiedIds
    /\ \E r \in rows : r.arr_service # cycle.service_name

\* -------------------------------------------------------------------- C18
\* the number of events of the cycle with this operation and download
CountOf(op, download_id) ==
    Len(SelectSeq(cycle.trace, LAMBDA e : e.op = op /\ e.download_id = download_id))

\* C18: within one cycle at most one queue-delete and at most one search
\* command are sent for a download, also when the fetched records hold the
\* download more than once.
C18_NoDoubleActing ==
    Returned =>
        \A e \in TraceEvents :
            /\ CountOf("DELETE", e.download_id) <= 1
            /\ CountOf("POST", e.download_id) <= 1

\* -------------------------------------------------------------------- C19
\* a cycle has just sent the queue-delete of the download that stays stalled
DeleteSent ==
    /\ Returned
    /\ \E e \in TraceEvents :
          e.op = "DELETE" /\ e.download_id = download_id_of(StalledItem)

\* C19: for a download that every sweep fetches and classifies, with the
\* clock advancing between sweeps and no fatal error, a queue-delete is sent
\* again and again, whatever the backend answers to the deletes.
C19_DeleteRecurs == []<>DeleteSent

C19_Witness ==
    /\ Returned
    /\ \E e \in TraceEvents :
          /\ e.op = "DELETE"
          /\ e.download_id = download_id_of(StalledItem)
          /\ FailedNot404(e.response)
    /\ \A r \in cycle.before : FromIsoFormat(r.first_detected) < 0

====
